---- MODULE Spec2Model ----
(***************************************************************************)
(* The weekly raffle of raffle.py: main() loads the cumulative winnings,  *)
(* distribute_items() allocates every item of every category and          *)
(* subcategory, update_winnings_file() writes the winnings back.           *)
(***************************************************************************)
EXTENDS Integers, Sequences, FiniteSets, TLC

(* ---------------------------------------------------------------- bounds *)
MaxCap == 3
MaxSubCap == 2
MaxPrior == 3
MaxRuns == 2

(* ------------------------------------------------------- program constants *)
FCFS == "First Come, First Serve"
None == "None"
\* ln is kept to three decimals: LnMilli[n] = round(1000 * math.log(n))
LnScale == 1000
LnMilli == <<0, 693, 1099, 1386, 1609, 1792, 1946, 2079, 2197, 2303, 2398, 2485,
             2565, 2639, 2708, 2773, 2833, 2890, 2944, 2996, 3045, 3091, 3135, 3178>>

Red == "Insignias [Red]"
Yellow == "Insignias [Yellow]"
Cards == "Selection cards"
Stones == "Stones"
Hero == "Hero Selection card"
Relic == "Relic Selection card"
T2 == "T2 Stone"
T1 == "T1 Stone"
Recast == "Recast Stone"

\* the keys of CATEGORY_LIMITS, in declaration order
Categories == <<Red, Yellow, Cards, Stones>>
\* isinstance(limit, int)
IsFlat(category) == category \in {Red, Yellow}
\* the keys of a dict-valued limit, in declaration order
Subcategories(category) ==
    IF category = Cards THEN <<Hero, Relic>>
    ELSE IF category = Stones THEN <<T2, T1, Recast>>
    ELSE <<>>

Range(s) == {s[i] : i \in DOMAIN s}
FlatCategories == {c \in Range(Categories) : IsFlat(c)}
SubCategorized == {c \in Range(Categories) : ~IsFlat(c)}
SubBuckets == UNION {Range(Subcategories(c)) : c \in SubCategorized}
Buckets == FlatCategories \cup SubBuckets
LedgerKeys == Range(Categories) \cup SubBuckets
Handles == {"A", "B"}

(* ------------------------------------------------------------- dictionaries *)
EmptyDict == [x \in {} |-> 0]
Get(d, k, default) == IF k \in DOMAIN d THEN d[k] ELSE default
\* d[k] += 1 on a defaultdict(int)
\* d[k] = 1 in place of d[k] += 1
SetToOne(d, k) == [x \in (DOMAIN d) \cup {k} |-> IF x = k THEN 1 ELSE d[x]]
Increment(d, k) == [x \in (DOMAIN d) \cup {k} |-> IF x = k THEN Get(d, k, 0) + 1 ELSE d[x]]

RECURSIVE SumOver(_, _)
SumOver(d, S) == IF S = {} THEN 0
                 ELSE LET x == CHOOSE y \in S : TRUE IN d[x] + SumOver(d, S \ {x})

(* ------------------------------------------------------------- item labels *)
\* f"{category} #{i+1}"
Label(bucket, i) == <<bucket, i>>
\* a sort key of the wrong sign
numeric_sort_key_negated(item) == 0 - item[2]
\* re.search(r"#(\d+)", item): the number after the "#"
numeric_sort_key(item) == item[2]
\* the place of s[j] after a stable sort: behind the smaller keys and behind
\* the equal keys that come before it
PlaceByKey(s, j) ==
    1 + Cardinality({k \in DOMAIN s :
            \/ numeric_sort_key(s[k]) < numeric_sort_key(s[j])
            \/ numeric_sort_key(s[k]) = numeric_sort_key(s[j]) /\ k < j})
\* items.sort(key=numeric_sort_key): a stable sort
SortItems(s) == [i \in 1..Len(s) |-> s[CHOOSE j \in DOMAIN s : PlaceByKey(s, j) = i]]
\* [f"{category} #{i+1}" for i in range(limit)], then sorted
MakeItems(bucket, limit) == SortItems([i \in 1..limit |-> Label(bucket, i)])
\* the last item left is forgotten
UnclaimedButLast(its) == [i \in 1..(Len(its) - 1) |-> <<its[i], FCFS>>]
Unclaimed(its) == [i \in 1..Len(its) |-> <<its[i], FCFS>>]

(* ----------------------------------------------------- weights and average *)
\* A number is the fraction num / den; raised names the exception its
\* computation raised, None when it raised none.
Number(n, d) == [raised |-> None, num |-> n, den |-> d]
Raised(e) == [raised |-> e, num |-> 0, den |-> 1]
\* a / b
Divide(a, b) == IF b = 0 THEN Raised("ZeroDivisionError") ELSE Number(a, b)
\* the average without its guard against an empty ledger
AverageWinningsUnguarded(d) == Divide(SumOver(d, DOMAIN d), Cardinality(DOMAIN d))
\* sum(d.values()) / len(d) if len(d) > 0 else 0
AverageWinnings(d) ==
    IF Cardinality(DOMAIN d) > 0
    THEN Divide(SumOver(d, DOMAIN d), Cardinality(DOMAIN d))
    ELSE Number(0, 1)
\* count < average_winnings
BelowAverage(count, avg) == count * avg.den < avg.num
\* the boost given to the participants at or above the average
Boost2Inverted(count, avg) == IF BelowAverage(count, avg) THEN 2 ELSE 3
\* the boost, doubled: 1.5 -> 3, 1 -> 2
Boost2(count, avg) == IF BelowAverage(count, avg) THEN 3 ELSE 2
\* math.log(n), in thousandths
Log(n) == IF n <= 0 THEN Raised("ValueError") ELSE Number(LnMilli[n], LnScale)
\* (1 / (1 + math.log(1 + count))) * (1.5 if count < average_winnings else 1)
Weight(count, avg) ==
    LET l == Log(1 + count) IN
    IF l.raised # None THEN l
    ELSE IF l.den + l.num = 0 THEN Raised("ZeroDivisionError")
    ELSE Number(l.den * Boost2(count, avg), 2 * (l.den + l.num))
\* weights on an average taken again from the counts of every draw
WeightsOnFreshAverage(cands, d, avg) ==
    [i \in 1..Len(cands) |-> Weight(Get(d, cands[i], 0), AverageWinnings(d))]
\* [weight of p for p in cands], on the counts d.get(p, 0)
Weights(cands, d, avg) == [i \in 1..Len(cands) |-> Weight(Get(d, cands[i], 0), avg)]
WeightGreater(v, w) == v.num * w.den > w.num * v.den
WeightPositive(w) == w.raised = None /\ w.num > 0 /\ w.den > 0
\* random.choices(population, weights, k=1) raises on an empty population and
\* on weights whose total is not positive
ChoicesRaises(ws) ==
    \/ ws = <<>>
    \/ \A i \in DOMAIN ws : ~WeightPositive(ws[i])
\* the indexes random.choices can return: those of positive weight
ChoicesOutcomes(ws) == {i \in DOMAIN ws : WeightPositive(ws[i])}

(* ------------------------------------------------------------------ state *)
VARIABLES
    CATEGORY_LIMITS,          \* bucket -> capacity
    participants,             \* the keys of participants_choices, in dict order
    participants_choices,     \* handle -> category -> request
    winnings_file,            \* cumulative_winnings.csv: missing, or its rows
    winnings_tracker,         \* ledger key -> handle -> count
    allocation,               \* the list distribute_items returns
    participant_item_count,   \* handle -> items won in flat categories this run
    pc,                       \* where main() stands
    ci, si,                   \* position in CATEGORY_LIMITS: category, subcategory
    items,                    \* the bucket's items not yet allocated
    category_participants,    \* [p, max_items] of the flat category
    first_pass_participants,
    fpi,                      \* position of the first-pass loop
    second_pass_participants,
    subcategory_participants, \* [p, allowance] of the subcategory
    average_winnings,
    draw,                     \* the last weighted draw: candidates, counts, weights, winner
    run                       \* runs of main() started so far

vars == <<CATEGORY_LIMITS, participants, participants_choices, winnings_file,
          winnings_tracker, allocation, participant_item_count, pc, ci, si, items,
          category_participants, first_pass_participants, fpi,
          second_pass_participants, subcategory_participants, average_winnings,
          draw, run>>

\* the file is missing, or holds rows
NotFound == [found |-> FALSE, rows |-> {}]
File(rows) == [found |-> TRUE, rows |-> rows]
NoDraw == [candidates |-> <<>>, counts |-> <<>>, weights |-> <<>>, winner |-> None]
NoAverage == Number(0, 1)
EmptyTracker == [k \in LedgerKeys |-> EmptyDict]

\* rows of (category, member, total_winnings) -> winnings_tracker
TrackerOfRows(rows) ==
    [k \in LedgerKeys |->
        [m \in {r.member : r \in {q \in rows : q.category = k}} |->
            (CHOOSE r \in rows : r.category = k /\ r.member = m).total_winnings]]
\* only the rows of the keys of CATEGORY_LIMITS are written
RowsOfCategoriesOnly(tracker) ==
    UNION {{[category |-> k, member |-> m, total_winnings |-> tracker[k][m]] :
                m \in DOMAIN tracker[k]} : k \in Range(Categories)}
\* winnings_tracker -> rows of (category, member, total_winnings)
RowsOfTracker(tracker) ==
    UNION {{[category |-> k, member |-> m, total_winnings |-> tracker[k][m]] :
                m \in DOMAIN tracker[k]} : k \in DOMAIN tracker}

(* ------------------------------------------------------- the loop position *)
category == Categories[ci]
subcategory == Subcategories(category)[si]
bucket == IF IsFlat(category) THEN category ELSE subcategory
InLoop == ci <= Len(Categories)
LastOfCategory == IsFlat(category) \/ si >= Len(Subcategories(category))
NextCi == IF LastOfCategory THEN ci + 1 ELSE ci
NextSi == IF LastOfCategory THEN 1 ELSE si + 1

\* category in participants_choices[p]
HasKey(p, c) == c \in DOMAIN participants_choices[p]
WithKey(c) == SelectSeq(participants, LAMBDA p : HasKey(p, c))
\* [[p, participants_choices[p][category]] for p in ... if category in ...]
CategoryParticipants(c) ==
    LET ps == WithKey(c) IN [i \in 1..Len(ps) |-> <<ps[i], participants_choices[ps[i]][c]>>]
\* len([item for item in requested if item == subcategory])
CountOf(requested, name) == Cardinality({i \in DOMAIN requested : requested[i] = name})
Min(a, b) == IF a <= b THEN a ELSE b
\* [[p, min(2, copies requested)] for p in ... if category in ...]
SubcategoryParticipants(c, sub) ==
    LET ps == WithKey(c) IN
    [i \in 1..Len(ps) |-> <<ps[i], Min(2, CountOf(participants_choices[ps[i]][c], sub))>>]
Handle(s) == [i \in 1..Len(s) |-> s[i][1]]
\* a first pass that also serves a request of 0
FirstPassFromZero(cp) == Handle(SelectSeq(cp, LAMBDA e : e[2] >= 0))
\* a first pass that serves nobody who asked for 2 or less
FirstPassAboveTwo(cp) == Handle(SelectSeq(cp, LAMBDA e : e[2] > 2))
\* a first pass that serves only the requests above 1
FirstPassAboveOne(cp) == Handle(SelectSeq(cp, LAMBDA e : e[2] > 1))
\* [p for p, max_items in category_participants if max_items >= 1]
FirstPassParticipants(cp) == Handle(SelectSeq(cp, LAMBDA e : e[2] >= 1))
\* second-pass candidates judged on the items won of this category alone
SecondPassPerCategory(cp, count) ==
    Handle(SelectSeq(cp, LAMBDA e :
        /\ e[2] = 2
        /\ Cardinality({j \in DOMAIN allocation :
               allocation[j][1][1] = category /\ allocation[j][2] = e[1]}) < 2))
\* second-pass candidates that include the requests of 1
SecondPassFromOne(cp, count) ==
    Handle(SelectSeq(cp, LAMBDA e : e[2] >= 1 /\ Get(count, e[1], 0) < 2))
\* second-pass candidates chosen without looking at the items already won
SecondPassAnyCount(cp, count) == Handle(SelectSeq(cp, LAMBDA e : e[2] = 2))
\* [p for p, max_items in category_participants
\*    if max_items == 2 and participant_item_count[p] < 2]
SecondPassParticipants(cp, count) ==
    Handle(SelectSeq(cp, LAMBDA e : e[2] = 2 /\ Get(count, e[1], 0) < 2))
\* a winner who stays in the pool
RemoveNone(s, x) == s
\* s.remove(x): the first occurrence
RemoveFirst(s, x) ==
    LET k == CHOOSE j \in DOMAIN s : s[j] = x /\ \A h \in 1..(j - 1) : s[h] # x
    IN SubSeq(s, 1, k - 1) \o SubSeq(s, k + 1, Len(s))
\* an active pool that needs an allowance above 1
ActivePositionsAboveOne(sp) ==
    SelectSeq([i \in 1..Len(sp) |-> i], LAMBDA i : sp[i][2] > 1)
\* the positions in subcategory_participants of [p for p in ... if p[1] > 0]
ActivePositions(sp) ==
    SelectSeq([i \in 1..Len(sp) |-> i], LAMBDA i : sp[i][2] > 0)
ActiveParticipants(sp) == [k \in 1..Len(ActivePositions(sp)) |-> sp[ActivePositions(sp)[k]]]
\* while items: if not second_pass_participants: break
\* a second pass without its break on an empty pool
SecondPassNeverBreaks == items # <<>>
SecondPassContinues == items # <<>> /\ second_pass_participants # <<>>
\* while items: ...; if not active_participants: break
SubDrawContinues == items # <<>> /\ ActiveParticipants(subcategory_participants) # <<>>

Counts(cands, d) == [i \in 1..Len(cands) |-> Get(d, cands[i], 0)]
ClearLocals ==
    /\ items' = <<>>
    /\ category_participants' = <<>>
    /\ first_pass_participants' = <<>>
    /\ fpi' = 1
    /\ second_pass_participants' = <<>>
    /\ subcategory_participants' = <<>>
    /\ average_winnings' = NoAverage
    /\ draw' = NoDraw
Inputs == <<CATEGORY_LIMITS, participants, participants_choices>>
\* except ... : traceback.print_exc(); sys.exit(1)
Exit(where) ==
    /\ pc' = where
    /\ UNCHANGED <<Inputs, winnings_file, winnings_tracker, allocation,
                   participant_item_count, ci, si, items, category_participants,
                   first_pass_participants, fpi, second_pass_participants,
                   subcategory_participants, average_winnings, draw, run>>

(* ---------------------------------------------------------------- actions *)
\* main(): load_previous_winnings(), the request set, the start of distribute_items
LoadPreviousWinnings ==
    /\ pc = "main"
    /\ run < MaxRuns
    /\ ~winnings_file.found \/ winnings_file.rows # {}
    /\ winnings_tracker' = IF ~winnings_file.found THEN EmptyTracker
                           ELSE TrackerOfRows(winnings_file.rows)
    /\ allocation' = <<>>
    /\ participant_item_count' = EmptyDict
    /\ ci' = 1
    /\ si' = 1
    /\ pc' = "category"
    /\ run' = run + 1
    /\ ClearLocals
    /\ UNCHANGED <<Inputs, winnings_file>>

\* the file written from an empty tracker has no columns: pd.read_csv either
\* raises (caught: sys.exit(1)) or yields no rows; both outcomes are kept
LoadEmptyFile ==
    /\ pc = "main"
    /\ run < MaxRuns
    /\ winnings_file.found /\ winnings_file.rows = {}
    /\ \/ Exit("load failed")
       \/ /\ winnings_tracker' = EmptyTracker
          /\ allocation' = <<>>
          /\ participant_item_count' = EmptyDict
          /\ ci' = 1
          /\ si' = 1
          /\ pc' = "category"
          /\ run' = run + 1
          /\ ClearLocals
          /\ UNCHANGED <<Inputs, winnings_file>>

\* a flat category nobody has a key for: every item is First Come, First Serve
FlatNoParticipants ==
    /\ pc = "category" /\ InLoop /\ IsFlat(category)
    /\ CategoryParticipants(category) = <<>>
    /\ allocation' = allocation \o Unclaimed(MakeItems(category, CATEGORY_LIMITS[category]))
    /\ ci' = NextCi
    /\ si' = NextSi
    /\ ClearLocals
    /\ UNCHANGED <<Inputs, winnings_file, winnings_tracker, participant_item_count, pc, run>>

\* a flat category: its participants, its items, the first-pass list
StartFlat ==
    /\ pc = "category" /\ InLoop /\ IsFlat(category)
    /\ CategoryParticipants(category) # <<>>
    /\ category_participants' = CategoryParticipants(category)
    /\ items' = MakeItems(category, CATEGORY_LIMITS[category])
    /\ first_pass_participants' = FirstPassParticipants(CategoryParticipants(category))
    /\ fpi' = 1
    /\ pc' = "first"
    /\ UNCHANGED <<Inputs, winnings_file, winnings_tracker, allocation,
                   participant_item_count, ci, si, second_pass_participants,
                   subcategory_participants, average_winnings, draw, run>>

\* one iteration of: for participant in first_pass_participants
FirstPassStep ==
    /\ pc = "first"
    /\ fpi <= Len(first_pass_participants)
    /\ LET participant == first_pass_participants[fpi] IN
       IF items # <<>>
       THEN /\ items' = Tail(items)
            /\ allocation' = Append(allocation, <<Head(items), participant>>)
            /\ winnings_tracker' = [winnings_tracker EXCEPT
                                       ![category] = Increment(@, participant)]
            /\ participant_item_count' = Increment(participant_item_count, participant)
       ELSE UNCHANGED <<items, allocation, winnings_tracker, participant_item_count>>
    /\ fpi' = fpi + 1
    /\ UNCHANGED <<Inputs, winnings_file, pc, ci, si, category_participants,
                   first_pass_participants, second_pass_participants,
                   subcategory_participants, average_winnings, draw, run>>

\* after the first pass: the average and the second-pass candidates
BeginSecondPass ==
    /\ pc = "first"
    /\ fpi > Len(first_pass_participants)
    /\ LET avg == AverageWinnings(winnings_tracker[category]) IN
       IF avg.raised # None THEN Exit("distribute failed")
       ELSE /\ average_winnings' = avg
            /\ second_pass_participants' =
                   SecondPassParticipants(category_participants, participant_item_count)
            /\ pc' = "second"
            /\ UNCHANGED <<Inputs, winnings_file, winnings_tracker, allocation,
                           participant_item_count, ci, si, items, category_participants,
                           first_pass_participants, fpi, subcategory_participants,
                           draw, run>>

\* one iteration of the second pass: a weighted draw among the candidates
SecondPassDraw ==
    /\ pc = "second"
    /\ SecondPassContinues
    /\ LET ws == Weights(second_pass_participants, winnings_tracker[category],
                         average_winnings) IN
       IF items = <<>> \/ ChoicesRaises(ws) THEN Exit("distribute failed")
       ELSE \E k \in ChoicesOutcomes(ws) :
            LET winner == second_pass_participants[k]
                count == Increment(participant_item_count, winner) IN
            /\ draw' = [candidates |-> second_pass_participants,
                        counts |-> Counts(second_pass_participants,
                                          winnings_tracker[category]),
                        weights |-> ws, winner |-> winner]
            /\ items' = Tail(items)
            /\ allocation' = Append(allocation, <<Head(items), winner>>)
            /\ winnings_tracker' = [winnings_tracker EXCEPT
                                       ![category] = Increment(@, winner)]
            /\ participant_item_count' = count
            /\ second_pass_participants' =
                   IF count[winner] = 2 THEN RemoveFirst(second_pass_participants, winner)
                   ELSE second_pass_participants
            /\ UNCHANGED <<Inputs, winnings_file, pc, ci, si, category_participants,
                           first_pass_participants, fpi, subcategory_participants,
                           average_winnings, run>>

\* the end of a flat category: what is left is First Come, First Serve
FinishFlat ==
    /\ pc = "second"
    /\ ~SecondPassContinues
    /\ allocation' = allocation \o Unclaimed(items)
    /\ ci' = NextCi
    /\ si' = NextSi
    /\ pc' = "category"
    /\ ClearLocals
    /\ UNCHANGED <<Inputs, winnings_file, winnings_tracker, participant_item_count, run>>

\* a subcategory of a category nobody has a key for
SubNoParticipants ==
    /\ pc = "category" /\ InLoop /\ ~IsFlat(category)
    /\ SubcategoryParticipants(category, subcategory) = <<>>
    /\ allocation' = allocation \o
                        Unclaimed(MakeItems(subcategory, CATEGORY_LIMITS[subcategory]))
    /\ ci' = NextCi
    /\ si' = NextSi
    /\ ClearLocals
    /\ UNCHANGED <<Inputs, winnings_file, winnings_tracker, participant_item_count, pc, run>>

\* a subcategory: its participants and allowances, its items, its average
StartSub ==
    /\ pc = "category" /\ InLoop /\ ~IsFlat(category)
    /\ SubcategoryParticipants(category, subcategory) # <<>>
    /\ LET avg == AverageWinnings(winnings_tracker[subcategory]) IN
       IF avg.raised # None THEN Exit("distribute failed")
       ELSE /\ subcategory_participants' = SubcategoryParticipants(category, subcategory)
            /\ items' = MakeItems(subcategory, CATEGORY_LIMITS[subcategory])
            /\ average_winnings' = avg
            /\ pc' = "sub"
            /\ UNCHANGED <<Inputs, winnings_file, winnings_tracker, allocation,
                           participant_item_count, ci, si, category_participants,
                           first_pass_participants, fpi, second_pass_participants,
                           draw, run>>

\* one iteration of the subcategory loop: a weighted draw among the active
SubDraw ==
    /\ pc = "sub"
    /\ SubDrawContinues
    /\ LET active == ActiveParticipants(subcategory_participants)
           positions == ActivePositions(subcategory_participants)
           ws == Weights(Handle(active), winnings_tracker[subcategory], average_winnings) IN
       IF items = <<>> \/ ChoicesRaises(ws) THEN Exit("distribute failed")
       ELSE \E winner_index \in ChoicesOutcomes(ws) :
            LET winner == active[winner_index][1] IN
            /\ draw' = [candidates |-> Handle(active),
                        counts |-> Counts(Handle(active), winnings_tracker[subcategory]),
                        weights |-> ws, winner |-> winner]
            /\ items' = Tail(items)
            /\ allocation' = Append(allocation, <<Head(items), winner>>)
            /\ winnings_tracker' = [winnings_tracker EXCEPT
                                       ![subcategory] = Increment(@, winner)]
            /\ subcategory_participants' =
                   [subcategory_participants EXCEPT
                       ![positions[winner_index]] = <<@[1], @[2] - 1>>]
            /\ UNCHANGED <<Inputs, winnings_file, participant_item_count, pc, ci, si,
                           category_participants, first_pass_participants, fpi,
                           second_pass_participants, average_winnings, run>>

\* the end of a subcategory: what is left is First Come, First Serve
FinishSub ==
    /\ pc = "sub"
    /\ ~SubDrawContinues
    /\ allocation' = allocation \o Unclaimed(items)
    /\ ci' = NextCi
    /\ si' = NextSi
    /\ pc' = "category"
    /\ ClearLocals
    /\ UNCHANGED <<Inputs, winnings_file, winnings_tracker, participant_item_count, run>>

\* return allocation
Return ==
    /\ pc = "category"
    /\ ~InLoop
    /\ pc' = "update"
    /\ UNCHANGED <<Inputs, winnings_file, winnings_tracker, allocation,
                   participant_item_count, ci, si, items, category_participants,
                   first_pass_participants, fpi, second_pass_participants,
                   subcategory_participants, average_winnings, draw, run>>

\* update_winnings_file(winnings_tracker), write_output(allocation); the next
\* run of main() starts from the file
UpdateWinningsFile ==
    /\ pc = "update"
    /\ winnings_file' = File(RowsOfTracker(winnings_tracker))
    /\ pc' = "main"
    /\ UNCHANGED <<Inputs, winnings_tracker, allocation, participant_item_count, ci, si,
                   items, category_participants, first_pass_participants, fpi,
                   second_pass_participants, subcategory_participants,
                   average_winnings, draw, run>>

Next ==
    \/ LoadPreviousWinnings
    \/ LoadEmptyFile
    \/ FlatNoParticipants
    \/ StartFlat
    \/ FirstPassStep
    \/ BeginSecondPass
    \/ SecondPassDraw
    \/ FinishFlat
    \/ SubNoParticipants
    \/ StartSub
    \/ SubDraw
    \/ FinishSub
    \/ Return
    \/ UpdateWinningsFile

(* ------------------------------------------------------------ initial states *)
\* the capacities of the flat categories and of the subcategories
FlatLimits == -1..MaxCap
SubLimits == -1..MaxSubCap
\* int(float(row[category])) of a form answer; no key when the cell is empty
FlatRequests == 0..3
FlatChoices == UNION {[S -> FlatRequests] : S \in SUBSET FlatCategories}
\* str(row[category]).split(","), stripped; [] when the cell is empty
NoLists == [c \in SubCategorized |-> <<>>]
CardLists == {<<>>, <<Hero>>, <<Relic, Hero>>, <<Hero, Hero>>, <<Hero, Relic, Hero, Hero>>}
StoneLists == {<<>>, <<Recast, T2, Recast>>}
ListChoices == {[c \in SubCategorized |-> IF c = Cards THEN l ELSE m] :
                    l \in CardLists, m \in StoneLists}
Limits(r, y, h, l, t) ==
    [b \in Buckets |-> IF b = Red THEN r ELSE IF b = Yellow THEN y
                       ELSE IF b = Hero THEN h ELSE IF b = Relic THEN l
                       ELSE IF b = Recast THEN t ELSE 0]
\* the file a run left behind: every handle of S holds n items of every bucket
PriorRows(S, n) ==
    {[category |-> b, member |-> m, total_winnings |-> n[m]] : b \in Buckets, m \in S}
PriorFiles == {File(PriorRows(S, n)) : S \in SUBSET Handles, n \in [Handles -> 0..MaxPrior]}

InitLocals ==
    /\ winnings_tracker = EmptyTracker
    /\ allocation = <<>>
    /\ participant_item_count = EmptyDict
    /\ pc = "main"
    /\ ci = 1
    /\ si = 1
    /\ items = <<>>
    /\ category_participants = <<>>
    /\ first_pass_participants = <<>>
    /\ fpi = 1
    /\ second_pass_participants = <<>>
    /\ subcategory_participants = <<>>
    /\ average_winnings = NoAverage
    /\ draw = NoDraw

\* the flat categories in every capacity and request, one run, no file
InitFlat ==
    /\ CATEGORY_LIMITS \in {Limits(r, y, 0, 0, 0) : r \in FlatLimits, y \in FlatLimits}
    /\ participants \in {<<>>, <<"A", "B">>}
    /\ participants_choices \in
           {[p \in Range(participants) |-> (IF p = "A" THEN f ELSE g) @@ NoLists] :
               f \in {d \in FlatChoices : Yellow \in DOMAIN d => d[Yellow] \in {1, 2}},
               g \in {d \in FlatChoices : Yellow \in DOMAIN d => d[Yellow] = 2}}
    /\ winnings_file = NotFound
    /\ run = MaxRuns - 1
    /\ InitLocals

\* the subcategories: every capacity of Hero, a negative and a positive one of
\* Relic, Recast with and without items, every request list; one run, no file
InitSub ==
    /\ CATEGORY_LIMITS \in {Limits(2, 0, h, l, t) : h \in SubLimits, l \in {-1, 1},
                                                     t \in {0, MaxSubCap}}
    /\ participants \in {<<>>, <<"A", "B">>}
    /\ participants_choices \in
           [Range(participants) -> {(Red :> 2) @@ g : g \in ListChoices}]
    /\ winnings_file = NotFound
    /\ run = MaxRuns - 1
    /\ InitLocals

\* consecutive runs on the same form answers, from every file of prior winnings
InitRuns ==
    /\ CATEGORY_LIMITS = Limits(MaxCap + 1, MaxCap, MaxSubCap + 2, 1, 1)
    /\ participants = <<"A", "B">>
    /\ participants_choices \in
           {[p \in Range(participants) |->
                IF p = "A" THEN (Red :> 2 @@ Yellow :> 2 @@ Cards :> <<Hero, Relic, Hero, Hero>>
                                 @@ Stones :> <<>>)
                ELSE (Red :> 2 @@ Yellow :> y @@ Cards :> l @@ Stones :> <<Recast>>)] :
               y \in {1, 2}, l \in {<<Hero>>, <<Hero, Hero>>}}
    /\ winnings_file \in {NotFound} \cup PriorFiles
    /\ run = 0
    /\ InitLocals

Init == InitFlat \/ InitSub \/ InitRuns
Spec == Init /\ [][Next]_vars

\* a sequential program: the interpreter always takes the next step there is
FairSpec == Spec /\ WF_vars(Next)

(* ------------------------------------------------------ reading the outcome *)
\* distribute_items has returned its allocation
Returned == pc = "update"
RecordsOf(b) == {j \in DOMAIN allocation : allocation[j][1][1] = b}
WinsOf(b, p) ==
    Cardinality({j \in DOMAIN allocation :
                     allocation[j][1][1] = b /\ allocation[j][2] = p})
UnclaimedOf(b) == WinsOf(b, FCFS)
Everyone == Range(participants)
\* the winnings the run started from: the file is not written before the run ends
TrackerAtLoad == IF winnings_file.found THEN TrackerOfRows(winnings_file.rows)
                 ELSE EmptyTracker
InRun == pc \in {"category", "first", "second", "sub", "update"}
\* position of a bucket in declaration order
RECURSIVE Flatten(_)
Flatten(cs) == IF cs = <<>> THEN <<>>
               ELSE (IF IsFlat(Head(cs)) THEN <<Head(cs)>> ELSE Subcategories(Head(cs)))
                    \o Flatten(Tail(cs))
BucketOrder == Flatten(Categories)
BucketIndex(b) == CHOOSE k \in DOMAIN BucketOrder : BucketOrder[k] = b
ParentOf(b) == IF b \in {Hero, Relic} THEN Cards
               ELSE IF b \in {T2, T1, Recast} THEN Stones
               ELSE b
\* what p asked of bucket b: the quantity, or the copies listed
RequestedOf(b, p) ==
    IF ~HasKey(p, ParentOf(b)) THEN 0
    ELSE IF IsFlat(b) THEN participants_choices[p][b]
    ELSE CountOf(participants_choices[p][ParentOf(b)], b)
\* the participants who asked a flat category for at least 1, in order
FirstRequesters(c) == SelectSeq(participants, LAMBDA p : RequestedOf(c, p) >= 1)

(* ----------------------------------------------------------------- claims *)
\* C1: when distribute_items returns, a bucket of capacity N >= 0 has exactly N
\* records, every label "<bucket> #i", i in 1..N, is in exactly one record, and
\* its winner is a participant or First Come, First Serve.
C1_EveryItemOnce ==
    Returned =>
        \A b \in Buckets :
            LET N == CATEGORY_LIMITS[b] IN
            N >= 0 =>
                /\ Cardinality(RecordsOf(b)) = N
                /\ \A i \in 1..N :
                       Cardinality({j \in RecordsOf(b) : allocation[j][1] = Label(b, i)}) = 1
                /\ \A j \in RecordsOf(b) : allocation[j][2] \in Everyone \cup {FCFS}
\* a returned allocation with a bucket holding a won item and an unclaimed one
C1_Witness ==
    /\ Returned
    /\ \E b \in Buckets : \E p \in Everyone :
           CATEGORY_LIMITS[b] >= 2 /\ WinsOf(b, p) >= 1 /\ UnclaimedOf(b) >= 1

\* C2: no participant wins more than 2 records of one flat category or of one
\* subcategory in a run.
C2_AtMostTwoPerBucket ==
    \A b \in Buckets : \A p \in Everyone : WinsOf(b, p) <= 2
\* a participant has won 2 of a flat category and 2 of a subcategory
C2_Witness ==
    /\ Returned
    /\ \E p \in Everyone :
           /\ \E b \in FlatCategories : WinsOf(b, p) = 2
           /\ \E b \in SubBuckets : WinsOf(b, p) = 2 /\ RequestedOf(b, p) > 2

RECURSIVE SumRequests(_, _)
SumRequests(c, S) == IF S = {} THEN 0
                     ELSE LET p == CHOOSE q \in S : TRUE
                          IN RequestedOf(c, p) + SumRequests(c, S \ {p})
Requesters(c) == {p \in Everyone : HasKey(p, c)}
EnoughForAll(c) ==
    /\ Requesters(c) # {}
    /\ \A p \in Requesters(c) : RequestedOf(c, p) \in {1, 2}
    /\ SumRequests(c, Requesters(c)) <= CATEGORY_LIMITS[c]
ServedInFull(c) ==
    /\ \A p \in Requesters(c) : WinsOf(c, p) = RequestedOf(c, p)
    /\ UnclaimedOf(c) = CATEGORY_LIMITS[c] - SumRequests(c, Requesters(c))
\* C3: in every flat category of capacity N where each requester asked for 1
\* or 2 and the requests sum to at most N, every requester receives what they
\* asked for and N minus the sum is unclaimed.
C3_EveryFlatServedInFull ==
    Returned => \A c \in FlatCategories : EnoughForAll(c) => ServedInFull(c)

FileCovers(old, new) ==
    \A r \in old.rows : \E q \in new.rows :
        /\ q.category = r.category
        /\ q.member = r.member
        /\ q.total_winnings >= r.total_winnings
LoadedFrom(file, tracker) ==
    /\ \A r \in file.rows : /\ r.member \in DOMAIN tracker[r.category]
                            /\ tracker[r.category][r.member] = r.total_winnings
    /\ \A k \in LedgerKeys : \A m \in DOMAIN tracker[k] :
           \E r \in file.rows : r.category = k /\ r.member = m
OneIncrement(old, new) ==
    \E k \in LedgerKeys : \E m \in Handles :
        /\ new[k] = Increment(old[k], m)
        /\ \A j \in LedgerKeys \ {k} : new[j] = old[j]
LedgerStep ==
    /\ FileCovers(winnings_file, winnings_file')
    /\ (pc = "main" /\ pc' = "category") => LoadedFrom(winnings_file, winnings_tracker')
    /\ pc # "main" => \/ winnings_tracker' = winnings_tracker
                      \/ OneIncrement(winnings_tracker, winnings_tracker')
\* C4: the ledger never decreases: the file written at the end of a run holds,
\* for every row of the file the run started from, a row of the same bucket and
\* participant with a count at least as large; the run starts from the counts
\* of the file, and every change of the ledger within a run is one entry
\* incremented by exactly 1.
C4_LedgerNeverDecreases == [][LedgerStep]_vars
\* a second run has written the file, with a count that both runs raised
C4_Witness ==
    /\ pc = "main" /\ run >= 2 /\ winnings_file.found
    /\ \E r \in winnings_file.rows : r.total_winnings >= MaxPrior + 3

NobodyRequested(b) == \A p \in Everyone : RequestedOf(b, p) < 1
\* C5: a bucket nobody requested (no request >= 1 of a flat category, no
\* listing of a subcategory) has only First Come, First Serve records and its
\* ledger entries are those the run started from.
C5_UnrequestedBucketUnclaimed ==
    InRun =>
        LET before == TrackerAtLoad IN
        \A b \in Buckets :
            NobodyRequested(b) =>
                /\ \A j \in RecordsOf(b) : allocation[j][2] = FCFS
                /\ winnings_tracker[b] = before[b]
\* a flat category asked for with quantity 0 only, and a subcategory nobody
\* lists, both with items, fully unclaimed while another bucket has a winner
C5_Witness ==
    /\ Returned
    /\ \/ \E c \in FlatCategories :
              /\ NobodyRequested(c) /\ CATEGORY_LIMITS[c] >= 2
              /\ \E p \in Everyone : HasKey(p, c)
              /\ UnclaimedOf(c) = CATEGORY_LIMITS[c]
              /\ \E b \in Buckets : \E p \in Everyone : WinsOf(b, p) >= 1
       \/ \E b \in SubBuckets :
              /\ NobodyRequested(b) /\ CATEGORY_LIMITS[b] >= 2 /\ Everyone # {}
              /\ UnclaimedOf(b) = CATEGORY_LIMITS[b]
              /\ \E d \in SubBuckets : \E p \in Everyone : WinsOf(d, p) >= 1

InOrder(r, q) ==
    \/ BucketIndex(r[1][1]) < BucketIndex(q[1][1])
    \/ /\ r[1][1] = q[1][1]
       /\ r[1][2] < q[1][2]
       /\ r[2] = FCFS => q[2] = FCFS
\* C6: the allocation lists the buckets in declaration order and, inside a
\* bucket, the items by strictly ascending index, the won items before the
\* First Come, First Serve ones; the first-pass winners of a flat category
\* hold its lowest indexes, in participant order.
C6_AllocationOrdered ==
    /\ \A j \in 1..(Len(allocation) - 1) : InOrder(allocation[j], allocation[j + 1])
    /\ Returned =>
           \A c \in FlatCategories : \A j \in RecordsOf(c) :
               LET i == allocation[j][1][2] IN
               i <= Len(FirstRequesters(c)) => allocation[j][2] = FirstRequesters(c)[i]
\* a returned allocation where a flat category holds a first-pass and a
\* second-pass record of one winner, a bucket holds a won and an unclaimed
\* record, and a subcategory holds two records
C6_Witness ==
    /\ Returned
    /\ \E c \in FlatCategories : \E p \in Everyone : WinsOf(c, p) = 2
    /\ \E b \in Buckets : \E p \in Everyone : WinsOf(b, p) >= 1 /\ UnclaimedOf(b) >= 1
    /\ \E b \in SubBuckets : Cardinality(RecordsOf(b)) >= 2

\* C7: in every weighted draw every candidate's weight is positive, and a
\* candidate with a smaller ledger count than another candidate of the same
\* draw has a strictly greater weight.
C7_FewerWinsWeighMore ==
    draw.winner # None =>
        \A i \in DOMAIN draw.candidates :
            /\ WeightPositive(draw.weights[i])
            /\ \A j \in DOMAIN draw.candidates :
                   draw.counts[i] < draw.counts[j] =>
                       WeightGreater(draw.weights[i], draw.weights[j])
\* a draw between a candidate with 0 prior wins and one with 3, and a draw
\* of a flat category between candidates of different counts
C7_Witness ==
    /\ pc = "sub" /\ draw.winner # None
    /\ \E i, j \in DOMAIN draw.candidates : draw.counts[i] = 0 /\ draw.counts[j] = 3
C7_WitnessFlat ==
    /\ pc = "second" /\ draw.winner # None
    /\ \E i, j \in DOMAIN draw.candidates : draw.counts[i] < draw.counts[j]

NoCapacity(b) == CATEGORY_LIMITS[b] <= 0
\* C8: distribute_items never aborts, and a bucket of zero or negative
\* capacity has no record and the ledger entries the run started from.
C8_BoundaryCasesDoNotRaise ==
    /\ pc # "distribute failed"
    /\ Returned =>
           \A b \in Buckets :
               NoCapacity(b) =>
                   /\ RecordsOf(b) = {}
                   /\ winnings_tracker[b] = TrackerAtLoad[b]
\* a returned run with a requested flat category of negative capacity, a
\* requested subcategory of no capacity, and a bucket whose candidates ran out
C8_Witness ==
    /\ Returned
    /\ \E c \in FlatCategories : \E p \in Everyone :
           CATEGORY_LIMITS[c] < 0 /\ RequestedOf(c, p) = 2
C8_WitnessSub ==
    /\ Returned
    /\ \A k \in LedgerKeys : TrackerAtLoad[k] = EmptyDict
    /\ \E b \in SubBuckets : \E p \in Everyone :
           CATEGORY_LIMITS[b] < 0 /\ RequestedOf(b, p) >= 1
    /\ \E b \in SubBuckets : \E p \in Everyone : WinsOf(b, p) >= 1 /\ UnclaimedOf(b) >= 1

CapacityOf(b) == IF CATEGORY_LIMITS[b] > 0 THEN CATEGORY_LIMITS[b] ELSE 0
\* C10: in a flat category the first pass serves the participants who asked
\* for at least 1, in participant order: with enough items each of them holds
\* at least one; with fewer, the records are exactly the first `capacity` of
\* them, one item each; and nobody holds 2 while another requester holds 0.
C10_FirstPassServesEveryRequester ==
    Returned =>
        \A c \in FlatCategories :
            LET R == FirstRequesters(c)
                N == CapacityOf(c) IN
            /\ N >= Len(R) => \A i \in DOMAIN R : WinsOf(c, R[i]) >= 1
            /\ N < Len(R) =>
                   /\ Cardinality(RecordsOf(c)) = N
                   /\ \A i \in 1..N : \E j \in RecordsOf(c) :
                          allocation[j] = <<Label(c, i), R[i]>>
            /\ ~ \E p, q \in Everyone :
                   WinsOf(c, p) = 2 /\ RequestedOf(c, q) >= 1 /\ WinsOf(c, q) = 0
\* a flat category with fewer items than requesters, and one where a second
\* pass gave a participant 2
C10_Witness ==
    /\ Returned
    /\ \E c \in FlatCategories :
           CapacityOf(c) >= 1 /\ CapacityOf(c) < Len(FirstRequesters(c))
    /\ \E c \in FlatCategories : \E p \in Everyone : WinsOf(c, p) = 2

\* the allowance of p in subcategory b: min(2, copies listed)
AllowanceOf(b, p) == Min(2, RequestedOf(b, p))
RECURSIVE SumAllowances(_, _)
SumAllowances(b, S) == IF S = {} THEN 0
                       ELSE LET p == CHOOSE q \in S : TRUE
                            IN AllowanceOf(b, p) + SumAllowances(b, S \ {p})
RECURSIVE SumWins(_, _)
SumWins(b, S) == IF S = {} THEN 0
                 ELSE LET p == CHOOSE q \in S : TRUE
                      IN WinsOf(b, p) + SumWins(b, S \ {p})
\* C11: when distribute_items returns, a subcategory with an unclaimed record
\* has given every participant exactly min(2, copies listed); the items won
\* are min(items of the subcategory, sum of the allowances), the items of a
\* subcategory of negative capacity being none.
C11_UnclaimedOnlyWhenPoolExhausted ==
    Returned =>
        \A b \in SubBuckets :
            /\ UnclaimedOf(b) >= 1 =>
                   \A p \in Everyone : WinsOf(b, p) = AllowanceOf(b, p)
            /\ SumWins(b, Everyone) = Min(CapacityOf(b), SumAllowances(b, Everyone))
\* a subcategory with an unclaimed item after both participants used up
\* allowances of 1 and 2
C11_Witness ==
    /\ Returned
    /\ \E b \in SubBuckets : \E p, q \in Everyone :
           /\ UnclaimedOf(b) >= 1
           /\ WinsOf(b, p) = 1 /\ RequestedOf(b, p) = 1
           /\ WinsOf(b, q) = 2 /\ RequestedOf(b, q) > 2

\* what p may win of bucket b at most
MayWin(b, p) ==
    LET q == RequestedOf(b, p) IN
    IF IsFlat(b) THEN (IF q <= 0 THEN 0 ELSE IF q = 1 THEN 1 ELSE 2)
    ELSE Min(2, q)
\* C12: nobody wins more of a bucket than they asked for (subcategory: at most
\* min(2, copies listed); flat: none on 0 or no answer, at most 1 on 1), and the
\* winner of every draw is one of its candidates, who all asked for 2 and hold
\* fewer than 2 (flat) or have allowance left (subcategory) when drawn.
C12_NoMoreThanRequested ==
    /\ \A b \in Buckets : \A p \in Everyone : WinsOf(b, p) <= MayWin(b, p)
    /\ draw.winner # None =>
           /\ draw.winner \in Range(draw.candidates)
           /\ \A p \in Range(draw.candidates) :
                  /\ pc = "second" => 
                         /\ RequestedOf(category, p) = 2
                         /\ Get(participant_item_count, p, 0)
                                - (IF p = draw.winner THEN 1 ELSE 0) < 2
                  /\ WinsOf(bucket, p) - (IF p = draw.winner THEN 1 ELSE 0)
                         < MayWin(bucket, p)
\* a returned run where a participant who asked a flat category for 1 holds 1
\* while the second pass gave another, who asked for 2, a second item
C12_Witness ==
    /\ Returned
    /\ \E c \in FlatCategories : \E p, q \in Everyone :
           /\ RequestedOf(c, p) = 1 /\ WinsOf(c, p) = 1
           /\ RequestedOf(c, q) = 2 /\ WinsOf(c, q) = 2

\* C13: a request above the cap is treated as a request of 2: a participant
\* who asked a flat category for more than 2 and holds fewer than 2 items is a
\* second-pass candidate like one who asked for 2, and a subcategory listed
\* more than twice gives an allowance of 2.
C13_RequestsClampedToTwo ==
    /\ pc = "second" =>
           \A p \in Everyone :
               (RequestedOf(category, p) >= 2 /\ Get(participant_item_count, p, 0) < 2)
                   => p \in Range(second_pass_participants)
    /\ (pc = "sub" /\ draw = NoDraw) =>
           \A i \in DOMAIN subcategory_participants :
               RequestedOf(subcategory, subcategory_participants[i][1]) > 2
                   => subcategory_participants[i][2] = 2

\* the position of p among the candidates of a draw, its count and its weight
PositionIn(d, p) == CHOOSE i \in DOMAIN d.candidates : d.candidates[i] = p
CountIn(d, p) == d.counts[PositionIn(d, p)]
WeightIn(d, p) == d.weights[PositionIn(d, p)]
\* the candidates of both the last draw and the one this step makes
InBothDraws == Range(draw.candidates) \cap Range(draw'.candidates)
\* a step that is a draw of the subcategory loop after an earlier one
NextSubDraw ==
    /\ pc = "sub" /\ pc' = "sub" /\ draw.winner # None
    /\ Len(allocation') = Len(allocation) + 1
\* C14: a participant who is a candidate in two draws of one subcategory has
\* the same ledger count, the same average and the same weight in both, also
\* after winning the earlier one.
C14_SubWeightsComputedOnce ==
    [][NextSubDraw =>
           /\ average_winnings' = average_winnings
           /\ \A p \in InBothDraws :
                  /\ CountIn(draw', p) = CountIn(draw, p)
                  /\ WeightIn(draw', p) = WeightIn(draw, p)]_vars
\* C14 (amended): the average of a subcategory is taken once, from the ledger
\* as loaded, and no draw changes it; the weights are taken again in every
\* draw from the current ledger: a candidate who did not win the earlier draw
\* keeps count and weight, the winner of the earlier draw has one more in the
\* ledger and a strictly smaller weight.
C14_SubAverageOnceWeightsPerDraw ==
    [][NextSubDraw =>
           /\ average_winnings' = average_winnings
           /\ average_winnings' = AverageWinnings(TrackerAtLoad[subcategory])
           /\ \A p \in InBothDraws :
                  IF p = draw.winner
                  THEN /\ CountIn(draw', p) = CountIn(draw, p) + 1
                       /\ WeightGreater(WeightIn(draw, p), WeightIn(draw', p))
                  ELSE /\ CountIn(draw', p) = CountIn(draw, p)
                       /\ WeightIn(draw', p) = WeightIn(draw, p)]_vars
\* a draw among two candidates, one of whom won an earlier draw of the
\* subcategory and the other did not
C14_Witness ==
    /\ pc = "sub" /\ draw.winner # None
    /\ \E p, q \in Range(draw.candidates) :
           /\ CountIn(draw, p) > Get(TrackerAtLoad[subcategory], p, 0)
           /\ CountIn(draw, q) = Get(TrackerAtLoad[subcategory], q, 0)
           /\ CountIn(draw, q) >= 1

\* a step that is a draw of the second pass after an earlier one
NextSecondPassDraw ==
    /\ pc = "second" /\ pc' = "second" /\ draw.winner # None
    /\ Len(allocation') = Len(allocation) + 1
\* the ledger of the category after the first pass, by participant
AfterFirstPass(p) == Get(TrackerAtLoad[category], p, 0) + WinsOf(category, p)
RECURSIVE SumAfterFirstPass(_)
SumAfterFirstPass(S) == IF S = {} THEN 0
                        ELSE LET p == CHOOSE q \in S : TRUE
                             IN AfterFirstPass(p) + SumAfterFirstPass(S \ {p})
\* the participants with a ledger entry in the category after the first pass
EntriesAfterFirstPass ==
    DOMAIN TrackerAtLoad[category] \cup {p \in Everyone : WinsOf(category, p) >= 1}
\* C15: the average of the second pass is taken once, after the first pass and
\* before the first draw, as the sum of the category's ledger counts over the
\* number of entries (0 without entries); no draw changes it; the winner of a
\* draw leaves the candidates at once, so a participant who is a candidate in
\* two draws has the same ledger count and weight in both.
C15_FlatAverageOnce ==
    [][/\ (pc = "first" /\ pc' = "second") =>
              LET n == Cardinality(EntriesAfterFirstPass') IN
              IF n = 0 THEN average_winnings'.num = 0
              ELSE average_winnings'.num * n =
                       average_winnings'.den * SumAfterFirstPass(EntriesAfterFirstPass)'
       /\ (pc = "second" /\ pc' = "second") =>
              /\ average_winnings' = average_winnings
              /\ draw'.winner # None => draw'.winner \notin Range(second_pass_participants')
       /\ NextSecondPassDraw =>
              \A p \in InBothDraws :
                  /\ CountIn(draw', p) = CountIn(draw, p)
                  /\ WeightIn(draw', p) = WeightIn(draw, p)]_vars
\* a second draw of one second pass, made among the candidates the first draw
\* left, on a ledger with entries
C15_Witness ==
    /\ pc = "second" /\ draw.winner # None
    /\ Len(draw.candidates) = 1
    /\ \E q \in Everyone \ {draw.winner} : WinsOf(category, q) = 2
    /\ WinsOf(category, draw.winner) = 2
    /\ average_winnings.num > average_winnings.den

\* the rows of key k and participant p in the file the run loaded
LoadedRows(k, p) == {r \in winnings_file.rows : r.category = k /\ r.member = p}
\* C16: during and after a run, the ledger count of every key and participant
\* is the count in the file the run loaded (0 without a row) plus the allocation
\* records of that very bucket
\* won by the participant; a subcategory win adds nothing to the key of the
\* parent category, and a pair without a win keeps its loaded count.
C16_LedgerChangeIsWins ==
    InRun =>
        \A k \in LedgerKeys : \A p \in Everyone \cup Handles :
            LET before == LoadedRows(k, p)
                wins == IF k \in Buckets THEN WinsOf(k, p) ELSE 0 IN
            /\ Get(winnings_tracker[k], p, 0) =
                   (IF before = {} THEN 0
                    ELSE (CHOOSE r \in before : TRUE).total_winnings) + wins
            /\ wins = 0 => (p \in DOMAIN winnings_tracker[k] <=> before # {})
\* a returned run, started from a file with counts, in which a participant won
\* in a flat category and in a subcategory and not in another subcategory
C16_Witness ==
    /\ Returned
    /\ \E p \in Everyone :
           /\ \E c \in FlatCategories :
                  WinsOf(c, p) = 2 /\ Get(TrackerAtLoad[c], p, 0) >= 1
           /\ \E b \in SubBuckets :
                  /\ WinsOf(b, p) >= 1 /\ Get(TrackerAtLoad[b], p, 0) >= 1
                  /\ Get(winnings_tracker[ParentOf(b)], p, 0) = 0
           /\ \E b \in SubBuckets :
                  WinsOf(b, p) = 0 /\ Get(winnings_tracker[b], p, 0) >= 1

\* C17: in a flat category of capacity 2 with two participants who both asked
\* for 2, each of them wins exactly one item: no outcome gives one of them both
\* (the outcome that does exist for a subcategory is C17_Witness).
C17_FlatNeverGivesOneBoth ==
    Returned =>
        \A c \in FlatCategories :
            (/\ CATEGORY_LIMITS[c] = 2
             /\ Cardinality(Everyone) = 2
             /\ \A p \in Everyone : RequestedOf(c, p) = 2)
                => \A p \in Everyone : WinsOf(c, p) = 1
\* a returned run in which a subcategory of capacity 2, listed twice or more by
\* both participants, went to one of them entirely, and a flat category of
\* capacity 2, asked for twice by both, gave each of them one item
C17_Witness ==
    /\ Returned
    /\ Cardinality(Everyone) = 2
    /\ \E b \in SubBuckets : \E p \in Everyone :
           /\ CATEGORY_LIMITS[b] = 2
           /\ \A q \in Everyone : AllowanceOf(b, q) = 2
           /\ WinsOf(b, p) = 2
           /\ \A q \in Everyone \ {p} : WinsOf(b, q) = 0
    /\ \E c \in FlatCategories :
           /\ CATEGORY_LIMITS[c] = 2
           /\ \A q \in Everyone : RequestedOf(c, q) = 2 /\ WinsOf(c, q) = 1

\* C18: participant_item_count is, for every participant, the items won so far
\* in all flat categories of the run together, subcategory wins not counted;
\* so a participant holds 2 items of at most one flat category, has won nothing
\* in the flat categories declared before it, and holds at most K + 1 items of
\* the K flat categories.
C18_OneCounterForAllFlatCategories ==
    InRun =>
        \A p \in Everyone :
            /\ Get(participant_item_count, p, 0) = WinsOf(Red, p) + WinsOf(Yellow, p)
            /\ Cardinality({c \in FlatCategories : WinsOf(c, p) >= 2}) <= 1
            /\ \A c \in FlatCategories :
                   WinsOf(c, p) >= 2 =>
                       /\ WinsOf(c, p) = 2
                       /\ \A d \in FlatCategories :
                              BucketIndex(d) < BucketIndex(c) => WinsOf(d, p) = 0
            /\ WinsOf(Red, p) + WinsOf(Yellow, p) <= Cardinality(FlatCategories) + 1
\* a returned run in which a participant who asked both flat categories for 2
\* won 2 of the first, 1 of the second, whose next item nobody claimed, and
\* items of a subcategory
C18_Witness ==
    /\ Returned
    /\ \E p \in Everyone :
           /\ RequestedOf(Red, p) = 2 /\ WinsOf(Red, p) = 2
           /\ RequestedOf(Yellow, p) = 2 /\ WinsOf(Yellow, p) = 1
           /\ UnclaimedOf(Yellow) >= 1
           /\ \E b \in SubBuckets : WinsOf(b, p) >= 1
           /\ participant_item_count[p] = 3

\* distribute_items is at work on the buckets
Distributing == pc \in {"category", "first", "second", "sub"}
\* a weighted draw of either loop
DrawStep == pc \in {"second", "sub"} /\ pc' = pc /\ allocation' # allocation
\* the pool the loop at hand draws from
PoolEmpty == IF pc = "second" THEN second_pass_participants = <<>>
             ELSE ActiveParticipants(subcategory_participants) = <<>>
\* C19: every draw appends one record and removes exactly one item; inside a
\* bucket the records made and the items left add up to its capacity, so a
\* bucket of capacity N sees at most N draws; a loop whose items or pool are
\* exhausted is left by the next step; and distribute_items, once started,
\* always comes to return the allocation.
C19_DistributeTerminates ==
    /\ [][DrawStep => /\ Len(items') = Len(items) - 1
                      /\ Len(allocation') = Len(allocation) + 1]_vars
    /\ [](pc \in {"first", "second", "sub"} =>
              Cardinality(RecordsOf(bucket)) + Len(items) = CapacityOf(bucket))
    /\ [][(pc \in {"second", "sub"} /\ (items = <<>> \/ PoolEmpty)) =>
              pc' = "category"]_vars
    /\ (Distributing ~> Returned)
\* a returned run with a bucket whose draws took every item and a bucket whose
\* loop stopped, after a draw, on an empty pool with items left
C19_Witness ==
    /\ Returned
    /\ \E b \in Buckets : \E p \in Everyone :
           CapacityOf(b) >= 2 /\ UnclaimedOf(b) = 0 /\ WinsOf(b, p) = 2
    /\ \E b \in SubBuckets : \E p \in Everyone :
           UnclaimedOf(b) >= 1 /\ WinsOf(b, p) >= 1
====
